---- MODULE Spec2Model ----
(***************************************************************************)
(* OCR_Text_Detector: the text pipeline of model/model.py (geometry        *)
(* extraction, anchor-based line clustering, outline annotation, texture   *)
(* encoding) and the orchestration of controller/controller.py (the load   *)
(* and process callbacks, the aspect scaler).                              *)
(*                                                                         *)
(* Conventions.  A Python str is a sequence of one-character strings.      *)
(* A real number that the code holds in a float and that is an exact       *)
(* dyadic or small rational (center_y, heights, thresholds, v/255) is a    *)
(* pair <<numerator, denominator>> with denominator > 0.  The one place    *)
(* where IEEE-754 rounding decides an integer result, _calculate_height,   *)
(* is computed bit by bit in binary64.  None is [kind |-> "None"].         *)
(***************************************************************************)
EXTENDS Integers, Sequences, FiniteSets, TLC

VARIABLES
    pc,              \* position inside the function a specification runs
    \* Controller._calculate_height
    new_width, current_width, current_height, new_height,
    \* Model.get_texture_data and the helpers it calls
    image_path, line_thickness, image, results, image_rgba, texture, ret,
    \* Model._group_text_by_lines and its helpers
    text_items, y_threshold, current_line, lines, item_i, result_lines,
    \* Controller and the DearPyGui items it owns
    _image_path, current_texture, current_image, result_text,
    callback_queue, running, issued, escaped, dialogs, finished,
    displayed_path   \* the file the image item on display was made from (kept by no code)

scaleVars == <<new_width, current_width, current_height, new_height>>
pipeVars == <<image_path, line_thickness, image, results, image_rgba, texture, ret>>
groupVars == <<text_items, y_threshold, current_line, lines, item_i, result_lines>>
ctlVars == <<_image_path, current_texture, current_image, result_text,
             callback_queue, running, issued, escaped, dialogs, finished,
             displayed_path>>
vars == <<pc, scaleVars, pipeVars, groupVars, ctlVars>>

None == [kind |-> "None"]

RECURSIVE SumSeq(_)
SumSeq(s) == IF s = <<>> THEN 0 ELSE Head(s) + SumSeq(Tail(s))

RECURSIVE MaxSeq(_)
MaxSeq(s) ==
    IF Len(s) = 1 THEN s[1]
    ELSE LET m == MaxSeq(Tail(s)) IN IF s[1] >= m THEN s[1] ELSE m

RECURSIVE MinSeq(_)
MinSeq(s) ==
    IF Len(s) = 1 THEN s[1]
    ELSE LET m == MinSeq(Tail(s)) IN IF s[1] <= m THEN s[1] ELSE m

Abs(n) == IF n < 0 THEN -n ELSE n

(***************************************************************************)
(* Exact rationals <<num, den>>, den > 0.                                  *)
(***************************************************************************)
RatSub(a, b) == <<a[1] * b[2] - b[1] * a[2], a[2] * b[2]>>
RatMul(a, b) == <<a[1] * b[1], a[2] * b[2]>>
RatAbs(a) == <<Abs(a[1]), a[2]>>
RatLeq(a, b) == a[1] * b[2] <= b[1] * a[2]
RatLess(a, b) == a[1] * b[2] < b[1] * a[2]
RatEq(a, b) == a[1] * b[2] = b[1] * a[2]

(***************************************************************************)
(* IEEE-754 binary64, round to nearest even, on the operations             *)
(* _calculate_height performs.  A nonzero float is [bits, e]: bits is the  *)
(* significand, most significant bit first (bits[1] = 1), and the value is *)
(* 1.bits[2..] * 2^e.  Zero is [zero |-> TRUE].                            *)
(***************************************************************************)
MantissaBits == 53

FloatZero == [zero |-> TRUE]

RECURSIVE Normalize(_, _, _)
Normalize(h, w, e) ==
    IF h >= 2 * w THEN Normalize(h, 2 * w, e + 1)
    ELSE IF h < w THEN Normalize(2 * h, w, e - 1)
    ELSE [h |-> h, w |-> w, e |-> e]

RECURSIVE Pow2(_)
Pow2(k) ==
    IF k = 0 THEN 1
    ELSE IF k % 2 = 1 THEN 2 * Pow2(k - 1)
    ELSE Pow2(k \div 2) * Pow2(k \div 2)

\* 2^k modulo w
RECURSIVE Pow2Mod(_, _)
Pow2Mod(k, w) ==
    IF k = 0 THEN 1 % w
    ELSE IF k % 2 = 1 THEN (2 * Pow2Mod(k - 1, w)) % w
    ELSE (Pow2Mod(k \div 2, w) * Pow2Mod(k \div 2, w)) % w

\* the remainder of the long division of r by w after k binary digits
RemainderAfter(r, w, k) == (r * Pow2Mod(k, w)) % w

\* n binary digits of r / w (r < w), followed by a last element that is 1 when a
\* nonzero remainder is left (the sticky bit) and 0 otherwise.
QuotientBits(r, w, n) ==
    [k \in 1..(n + 1) |->
        IF k <= n
        THEN IF 2 * RemainderAfter(r, w, k - 1) >= w THEN 1 ELSE 0
        ELSE IF RemainderAfter(r, w, n) # 0 THEN 1 ELSE 0]

LastZero(bits) ==
    CHOOSE z \in 1..Len(bits) :
        bits[z] = 0 /\ \A j \in (z + 1)..Len(bits) : bits[j] = 1

\* bits + 1 on Len(bits) + 1 digits: the first digit is the carry out.
Increment(bits) ==
    IF \A k \in 1..Len(bits) : bits[k] = 1
    THEN <<1>> \o [k \in 1..Len(bits) |-> 0]
    ELSE <<0>> \o [k \in 1..Len(bits) |->
                      IF k < LastZero(bits) THEN bits[k]
                      ELSE IF k = LastZero(bits) THEN 1 ELSE 0]

Renormalize(up, e) ==
    IF up[1] = 1 THEN [bits |-> SubSeq(up, 1, Len(up) - 1), e |-> e + 1]
    ELSE [bits |-> Tail(up), e |-> e]

\* bits, then a guard bit g and a sticky bit s, rounded to nearest, ties to even.
RoundNearestEven(bits, g, s, e) ==
    IF g = 1 /\ (s = 1 \/ bits[Len(bits)] = 1)
    THEN Renormalize(Increment(bits), e)
    ELSE [bits |-> bits, e |-> e]

RoundQuotient(q, e) ==
    RoundNearestEven(<<1>> \o SubSeq(q, 1, MantissaBits - 1),
                     q[MantissaBits], q[MantissaBits + 1], e)

ScaledQuotient(n) == RoundQuotient(QuotientBits(n.h - n.w, n.w, MantissaBits), n.e)

\* int / int (true division), h >= 0, w > 0: the correctly rounded quotient.
FloatDiv(h, w) == IF h = 0 THEN FloatZero ELSE ScaledQuotient(Normalize(h, w, 0))

RECURSIVE NatBits(_)
NatBits(n) == IF n = 0 THEN <<>> ELSE NatBits(n \div 2) \o <<n % 2>>

RECURSIVE BitsToNat(_)
BitsToNat(bits) ==
    IF bits = <<>> THEN 0
    ELSE IF Len(bits) = 1 THEN bits[1]
    ELSE BitsToNat(SubSeq(bits, 1, Len(bits) \div 2)) * Pow2(Len(bits) - Len(bits) \div 2)
             + BitsToNat(SubSeq(bits, Len(bits) \div 2 + 1, Len(bits)))

\* The significand is multiplied limb by limb, LimbBits bits at a time from the
\* least significant end; limb 0 is the lowest.
LimbBits == 8

LimbValue(bits, i) ==
    BitsToNat(SubSeq(bits,
                     IF Len(bits) - LimbBits * (i + 1) + 1 < 1 THEN 1
                     ELSE Len(bits) - LimbBits * (i + 1) + 1,
                     Len(bits) - LimbBits * i))

PadBits(n, width) == [k \in 1..width |-> (n \div Pow2(width - k)) % 2]

\* bits * t + carry * 2^(LimbBits * i) for the limbs from i up, most significant
\* bit first
RECURSIVE MulLimbs(_, _, _, _)
MulLimbs(bits, t, i, carry) ==
    IF LimbBits * (i + 1) >= Len(bits)
    THEN NatBits(LimbValue(bits, i) * t + carry)
    ELSE MulLimbs(bits, t, i + 1, (LimbValue(bits, i) * t + carry) \div Pow2(LimbBits))
             \o PadBits((LimbValue(bits, i) * t + carry) % Pow2(LimbBits), LimbBits)

Sticky(rest) == IF \E k \in 2..Len(rest) : rest[k] = 1 THEN 1 ELSE 0

RoundProduct(p, e) ==
    RoundNearestEven(SubSeq(p, 1, MantissaBits),
                     IF Len(p) > MantissaBits THEN p[MantissaBits + 1] ELSE 0,
                     Sticky(SubSeq(p, MantissaBits + 1, Len(p))),
                     e + (Len(p) - MantissaBits))

\* int * float, t >= 0: the exact product t * x rounded once.
FloatMulInt(t, x) ==
    IF t = 0 \/ x = FloatZero THEN FloatZero
    ELSE RoundProduct(MulLimbs(x.bits, t, 0, 0), x.e)

\* int(x) for x >= 0: truncation toward zero.
FloatToInt(x) ==
    IF x = FloatZero THEN 0
    ELSE IF x.e < 0 THEN 0
    ELSE IF x.e < MantissaBits THEN BitsToNat(SubSeq(x.bits, 1, x.e + 1))
    ELSE BitsToNat(x.bits \o [k \in 1..(x.e + 1 - MantissaBits) |-> 0])

(***************************************************************************)
(* Controller._calculate_height                                            *)
(***************************************************************************)
Raise(exc) == [kind |-> "raise", exc |-> exc]
Return(v) == [kind |-> "return", value |-> v]

_calculate_height_tolerant(nw, cw, ch) ==
    IF cw = 0 THEN Return(0)
    ELSE Return(FloatToInt(FloatMulInt(nw, FloatDiv(ch, cw))))

_calculate_height(nw, cw, ch) ==
    IF cw = 0 THEN Raise("ZeroDivisionError")
    ELSE LET aspect_ratio == FloatDiv(ch, cw)
         IN Return(FloatToInt(FloatMulInt(nw, aspect_ratio)))

(***************************************************************************)
(* Data.  A detection is the (bounding_box, text, confidence) tuple of     *)
(* easyocr's readtext; the confidence is read by none of the code below    *)
(* (it is bound to _ everywhere) and is left out.  bbox is four <<x, y>>   *)
(* points.  An image is the numpy array cv2 hands out: its shape and its   *)
(* pixels in row-major order, each pixel a sequence of channel bytes.      *)
(***************************************************************************)
Detection(bbox, text) == [bbox |-> bbox, text |-> text]

Box(x, y, w, h) == <<<<x, y>>, <<x + w, y>>, <<x + w, y + h>>, <<x, y + h>>>>

Xs(bbox) == [k \in 1..Len(bbox) |-> bbox[k][1]]
Ys(bbox) == [k \in 1..Len(bbox) |-> bbox[k][2]]

\* np.mean of a sequence of integers
Mean(s) == <<SumSeq(s), Len(s)>>

(***************************************************************************)
(* Model._extract_text_positions.  Each dict also carries det, the index   *)
(* of the detection it was built from: it stands for the identity of the   *)
(* Python object, which the sorts below move around but never copy.        *)
(***************************************************************************)
TextPosition(det, bbox, text) ==
    [text |-> text,
     center_y |-> Mean(Ys(bbox)),
     left_x |-> MinSeq(Xs(bbox)),
     height |-> MaxSeq(Ys(bbox)) - MinSeq(Ys(bbox)),
     det |-> det]

_extract_text_positions(res) ==
    [k \in 1..Len(res) |-> TextPosition(k, res[k].bbox, res[k].text)]

(***************************************************************************)
(* list.sort(key=...): stable, ascending.                                  *)
(***************************************************************************)
RECURSIVE InsertByCenterY(_, _)
InsertByCenterY(sorted, x) ==
    IF sorted = <<>> THEN <<x>>
    ELSE LET last == sorted[Len(sorted)]
         IN IF RatLeq(last.center_y, x.center_y) THEN Append(sorted, x)
            ELSE Append(InsertByCenterY(SubSeq(sorted, 1, Len(sorted) - 1), x), last)

RECURSIVE SortByCenterY(_)
SortByCenterY(s) ==
    IF s = <<>> THEN <<>>
    ELSE InsertByCenterY(SortByCenterY(SubSeq(s, 1, Len(s) - 1)), s[Len(s)])

RECURSIVE InsertByLeftXUnstable(_, _)
InsertByLeftXUnstable(sorted, x) ==
    IF sorted = <<>> THEN <<x>>
    ELSE LET last == sorted[Len(sorted)]
         IN IF last.left_x < x.left_x THEN Append(sorted, x)
            ELSE Append(InsertByLeftXUnstable(SubSeq(sorted, 1, Len(sorted) - 1), x), last)

RECURSIVE InsertByLeftX(_, _)
InsertByLeftX(sorted, x) ==
    IF sorted = <<>> THEN <<x>>
    ELSE LET last == sorted[Len(sorted)]
         IN IF last.left_x <= x.left_x THEN Append(sorted, x)
            ELSE Append(InsertByLeftX(SubSeq(sorted, 1, Len(sorted) - 1), x), last)

RECURSIVE SortByLeftX(_)
SortByLeftX(s) ==
    IF s = <<>> THEN <<>>
    ELSE InsertByLeftX(SortByLeftX(SubSeq(s, 1, Len(s) - 1)), s[Len(s)])

(***************************************************************************)
(* Model._group_items_into_lines: one iteration of the loop over           *)
(* text_items[1:], and the whole function as the fold of it.               *)
(***************************************************************************)
SameLineAsPrevious(item, line, thr) ==
    RatLeq(RatAbs(RatSub(item.center_y, line[Len(line)].center_y)), thr)

SameLine(item, line, thr) ==
    RatLeq(RatAbs(RatSub(item.center_y, line[1].center_y)), thr)

GroupItem(acc, item, thr) ==
    IF SameLine(item, acc.current_line, thr)
    THEN [lines |-> acc.lines, current_line |-> Append(acc.current_line, item)]
    ELSE [lines |-> Append(acc.lines, acc.current_line), current_line |-> <<item>>]

CloseLineForgotten(acc) == acc.lines

CloseLine(acc) == Append(acc.lines, acc.current_line)

RECURSIVE GroupFrom(_, _, _, _)
GroupFrom(acc, items, k, thr) ==
    IF k > Len(items) THEN CloseLine(acc)
    ELSE GroupFrom(GroupItem(acc, items[k], thr), items, k + 1, thr)

_group_items_into_lines(items, thr) ==
    LET sorted == SortByCenterY(items)
    IN GroupFrom([lines |-> <<>>, current_line |-> <<sorted[1]>>], sorted, 2, thr)

(***************************************************************************)
(* Model._join_lines                                                       *)
(***************************************************************************)
RECURSIVE StrJoin(_, _)
StrJoin(sep, parts) ==
    IF parts = <<>> THEN <<>>
    ELSE IF Len(parts) = 1 THEN parts[1]
    ELSE parts[1] \o sep \o StrJoin(sep, Tail(parts))

Texts(line) == [k \in 1..Len(line) |-> line[k].text]

JoinLine(line) == StrJoin(<<" ">>, Texts(SortByLeftX(line)))

_join_lines(ls) == StrJoin(<<"\n">>, [k \in 1..Len(ls) |-> JoinLine(ls[k])])

(***************************************************************************)
(* Model._group_text_by_lines                                              *)
(***************************************************************************)
line_threshold == <<1, 2>>

Heights(items) == [k \in 1..Len(items) |-> items[k].height]

YThreshold(items, factor) == RatMul(Mean(Heights(items)), factor)

_group_text_by_lines(res, factor) ==
    IF res = <<>> THEN <<>>
    ELSE LET items == _extract_text_positions(res)
         IN _join_lines(_group_items_into_lines(items, YThreshold(items, factor)))

(***************************************************************************)
(* Model._draw_polylines.  cv2.polylines is the rasteriser of OpenCV: it   *)
(* rejects a negative thickness (its argument check is                     *)
(* 0 <= thickness <= MAX_THICKNESS) and otherwise writes the colour into   *)
(* the array it is given.  Which pixels an outline covers is not decided   *)
(* by this repository; the model paints the polygon's vertices that lie    *)
(* inside the image, which is enough to tell a drawn image from an         *)
(* untouched one.  The loop runs once per detection, so with no detection  *)
(* cv2.polylines is never called.                                          *)
(***************************************************************************)
Pixel(img, x, y) == y * img.width + x + 1

PaintPoint(img, pt, color) ==
    IF pt[1] \in 0..(img.width - 1) /\ pt[2] \in 0..(img.height - 1)
    THEN [img EXCEPT !.data[Pixel(img, pt[1], pt[2])] = color]
    ELSE img

RECURSIVE PaintPoints(_, _, _, _)
PaintPoints(img, points, k, color) ==
    IF k > Len(points) THEN img
    ELSE PaintPoints(PaintPoint(img, points[k], color), points, k + 1, color)

\* the outcome of one call: the image drawn on, or the exception raised
polylines(img, points, color, thickness) ==
    IF thickness < 0 THEN Raise("cv2.error")
    ELSE Return(PaintPoints(img, points, 1, color))

RECURSIVE DrawFrom(_, _, _, _, _)
DrawFrom(img, res, k, color, thickness) ==
    IF k > Len(res) THEN Return(img)
    ELSE LET drawn == polylines(img, res[k].bbox, color, thickness)
         IN IF drawn.kind = "raise" THEN drawn
            ELSE DrawFrom(drawn.value, res, k + 1, color, thickness)

_draw_polylines_framed(img, res, color, thickness) ==
    DrawFrom(PaintPoint(img, <<0, 0>>, color), res, 1, color, thickness)

_draw_polylines(img, res, color, thickness) == DrawFrom(img, res, 1, color, thickness)

(***************************************************************************)
(* Model._convert_to_texture.  cv2.cvtColor with COLOR_BGR2RGBA takes a    *)
(* 3- or a 4-channel array, exchanges the first and the third channel and  *)
(* gives four channels: a missing alpha becomes 255, a present one is      *)
(* copied.  astype(float32) / 255.0 is the rational <<v, 255>>: the        *)
(* float32 rounding of v / 255 changes no length, order or bound below.    *)
(***************************************************************************)
cvtColorKeepingOrder(img) ==
    [img EXCEPT !.channels = 4,
                !.data = [k \in 1..Len(img.data) |->
                             IF img.channels = 3 THEN img.data[k] \o <<255>>
                             ELSE img.data[k]]]

cvtColor(img) ==
    [img EXCEPT !.channels = 4,
                !.data = [k \in 1..Len(img.data) |->
                             LET px == img.data[k]
                             IN <<px[3], px[2], px[1],
                                  IF img.channels = 3 THEN 255 ELSE px[4]>>]]

RECURSIVE Flatten(_)
Flatten(pixels) == IF pixels = <<>> THEN <<>> ELSE Head(pixels) \o Flatten(Tail(pixels))

Normalized(bytes) == [k \in 1..Len(bytes) |-> <<bytes[k], 255>>]

TextureOf(rgba) ==
    [texture_data |-> Normalized(Flatten(rgba.data)),
     width |-> rgba.width,
     height |-> rgba.height]

_convert_to_texture(img) == TextureOf(cvtColor(img))

(***************************************************************************)
(* Model.get_texture_data.  The disk is what cv2.imread and the OCR        *)
(* reader see: for a path, the decoded BGR image (or None when cv2 cannot  *)
(* read the file) and the detections readtext gives for it.                *)
(***************************************************************************)
line_color == <<0, 255, 0>>

White == <<255, 255, 255>>
Grey == <<10, 20, 30>>

Image(w, h, c, data) == [width |-> w, height |-> h, channels |-> c, data |-> data]

Hello == <<"H", "e", "l", "l", "o">>
World == <<"W", "o", "r", "l", "d">>

Paths == {"blank.png", "hello.png", "two_lines.png", "drift.png", "point.png",
          "broken.png"}

\* the pixels stored in the file, in the B,G,R order cv2 decodes them to
Decoded(path) ==
    CASE path = "blank.png" -> Image(2, 1, 3, <<White, Grey>>)
      [] path = "hello.png" -> Image(2, 2, 3, <<White, White, Grey, White>>)
      [] path = "two_lines.png" -> Image(1, 2, 3, <<Grey, White>>)
      [] path = "drift.png" -> Image(2, 2, 3, <<Grey, Grey, White, White>>)
      [] path = "point.png" -> Image(1, 1, 3, <<White>>)
      [] OTHER -> Image(1, 1, 3, <<Grey>>)

\* cv2.imread gives None for a file it cannot open or decode
imread(path) == IF path = "broken.png" THEN None ELSE Decoded(path)

readtext(path) ==
    CASE path = "hello.png" ->
             <<Detection(Box(1, 0, 1, 1), World), Detection(Box(0, 0, 1, 1), Hello)>>
      [] path = "two_lines.png" ->
             <<Detection(Box(0, 4, 2, 2), World), Detection(Box(0, 0, 2, 2), Hello)>>
      [] path = "drift.png" ->
             <<Detection(Box(1, 4, 4, 4), <<"b">>), Detection(Box(0, 0, 4, 4), Hello),
               Detection(Box(0, 2, 4, 4), <<"a">>)>>
      [] path = "point.png" -> <<Detection(Box(0, 0, 0, 0), <<"d">>)>>
      [] OTHER -> <<>>

TextureResult(tex, text) ==
    [kind |-> "return", texture_data |-> tex.texture_data, width |-> tex.width,
     height |-> tex.height, detected_text |-> text]

get_texture_data(path, color, thickness, factor) ==
    LET img == imread(path)
    IN IF img = None THEN Raise("FileNotFoundError")
       ELSE LET res == readtext(path)
                drawn == _draw_polylines(img, res, color, thickness)
            IN IF drawn.kind = "raise" THEN drawn
               ELSE TextureResult(_convert_to_texture(drawn.value),
                                  _group_text_by_lines(res, factor))

(***************************************************************************)
(* Values of the variables a specification does not use.                   *)
(***************************************************************************)
IdleScale ==
    /\ new_width = 0 /\ current_width = 0 /\ current_height = 0
    /\ new_height = None

IdlePipe ==
    /\ image_path = "" /\ line_thickness = 0 /\ image = None /\ results = <<>>
    /\ image_rgba = None /\ texture = None /\ ret = None

IdleGroup ==
    /\ text_items = <<>> /\ y_threshold = <<>> /\ current_line = <<>>
    /\ lines = <<>> /\ item_i = 0 /\ result_lines = <<>>

IdleCtl ==
    /\ _image_path = "" /\ current_texture = None /\ current_image = None
    /\ result_text = <<>> /\ callback_queue = <<>> /\ running = None
    /\ issued = 0 /\ escaped = <<>> /\ dialogs = <<>>
    /\ finished = [gen |-> 0, callback |-> "none", outcome |-> "none", latest |-> 0]
    /\ displayed_path = ""

(***************************************************************************)
(* SpecScale: one call of Controller._calculate_height.                    *)
(***************************************************************************)
MaxSide == 15

TargetWidths == {0, 27, 600}
SourceWidths == 0..MaxSide \cup {1200}
SourceHeights == 0..MaxSide \cup {600}

InitScale ==
    /\ pc = "call"
    /\ new_width \in TargetWidths
    /\ current_width \in SourceWidths
    /\ current_height \in SourceHeights
    /\ new_height = None
    /\ IdlePipe /\ IdleGroup /\ IdleCtl

CalculateHeight ==
    /\ pc = "call"
    /\ new_height' = _calculate_height(new_width, current_width, current_height)
    /\ pc' = "done"
    /\ UNCHANGED <<new_width, current_width, current_height, pipeVars, groupVars, ctlVars>>

NextScale == CalculateHeight

SpecScale == InitScale /\ [][NextScale]_vars

(***************************************************************************)
(* SpecEncode: one call of Model._convert_to_texture on a 3- or 4-channel  *)
(* array.                                                                  *)
(***************************************************************************)
MaxBufferSide == 2

Palette(channels) ==
    IF channels = 3 THEN {White, Grey}
    ELSE {<<255, 255, 255, 255>>, <<10, 20, 30, 40>>}

Buffers ==
    UNION {{Image(w, h, c, data) : data \in [1..(w * h) -> Palette(c)]} :
              <<w, h, c>> \in (1..MaxBufferSide) \X (1..MaxBufferSide) \X {3, 4}}

InitEncode ==
    /\ pc = "cvtColor"
    /\ image \in Buffers
    /\ image_path = "" /\ line_thickness = 0 /\ results = <<>>
    /\ image_rgba = None /\ texture = None /\ ret = None
    /\ IdleScale /\ IdleGroup /\ IdleCtl

EncodeCvtColor ==
    /\ pc = "cvtColor"
    /\ image_rgba' = cvtColor(image)
    /\ pc' = "flatten"
    /\ UNCHANGED <<image_path, line_thickness, image, results, texture, ret>>
    /\ UNCHANGED <<scaleVars, groupVars, ctlVars>>

EncodeFlatten ==
    /\ pc = "flatten"
    /\ texture' = TextureOf(image_rgba)
    /\ ret' = Return(texture')
    /\ pc' = "done"
    /\ UNCHANGED <<image_path, line_thickness, image, results, image_rgba>>
    /\ UNCHANGED <<scaleVars, groupVars, ctlVars>>

NextEncode == EncodeCvtColor \/ EncodeFlatten

SpecEncode == InitEncode /\ [][NextEncode]_vars

(***************************************************************************)
(* SpecReconstruct: one call of Model._group_text_by_lines, statement by   *)
(* statement, on every list of at most MaxDetections sample detections.    *)
(* The samples have centres 2, 2, 4, 17/4, 6 and 3 and heights 4, 4, 4, 4, *)
(* 4 and 0.                                                                *)
(***************************************************************************)
MaxDetections == 4

D_World == Detection(Box(10, 0, 4, 4), World)
D_Hello == Detection(Box(0, 0, 4, 4), Hello)
D_a == Detection(Box(0, 2, 4, 4), <<"a">>)
D_b == Detection(Box(10, 4, 4, 4), <<"b">>)
D_c == Detection(<<<<5, 2>>, <<9, 3>>, <<9, 6>>, <<5, 6>>>>, <<"c">>)
D_d == Detection(Box(3, 3, 0, 0), <<"d">>)

SampleDetections == {D_World, D_Hello, D_a, D_b, D_c, D_d}

DetectionLists == UNION {[1..n -> SampleDetections] : n \in 0..MaxDetections}

InitReconstruct ==
    /\ pc = "start"
    /\ results \in DetectionLists
    /\ image_path = "" /\ line_thickness = 0 /\ image = None
    /\ image_rgba = None /\ texture = None /\ ret = None
    /\ IdleGroup /\ IdleScale /\ IdleCtl

\* if not results: return ""
ReturnEmpty ==
    /\ pc = "start" /\ results = <<>>
    /\ ret' = Return(<<>>)
    /\ pc' = "done"
    /\ UNCHANGED <<image_path, line_thickness, image, results, image_rgba, texture>>
    /\ UNCHANGED <<groupVars, scaleVars, ctlVars>>

ExtractTextPositions ==
    /\ pc = "start" /\ results # <<>>
    /\ text_items' = _extract_text_positions(results)
    /\ pc' = "threshold"
    /\ UNCHANGED <<y_threshold, current_line, lines, item_i, result_lines>>
    /\ UNCHANGED <<pipeVars, scaleVars, ctlVars>>

ComputeThreshold ==
    /\ pc = "threshold"
    /\ y_threshold' = YThreshold(text_items, line_threshold)
    /\ pc' = "sort"
    /\ UNCHANGED <<text_items, current_line, lines, item_i, result_lines>>
    /\ UNCHANGED <<pipeVars, scaleVars, ctlVars>>

\* text_items.sort(...); lines = []; current_line = [text_items[0]]
SortItems ==
    /\ pc = "sort"
    /\ text_items' = SortByCenterY(text_items)
    /\ lines' = <<>>
    /\ current_line' = <<text_items'[1]>>
    /\ item_i' = 2
    /\ pc' = "group"
    /\ UNCHANGED <<y_threshold, result_lines, pipeVars, scaleVars, ctlVars>>

\* one iteration of: for item in text_items[1:]
GroupNextItem ==
    /\ pc = "group" /\ item_i <= Len(text_items)
    /\ LET acc == GroupItem([lines |-> lines, current_line |-> current_line],
                            text_items[item_i], y_threshold)
       IN /\ lines' = acc.lines
          /\ current_line' = acc.current_line
    /\ item_i' = item_i + 1
    /\ UNCHANGED <<pc, text_items, y_threshold, result_lines>>
    /\ UNCHANGED <<pipeVars, scaleVars, ctlVars>>

\* lines.append(current_line); return lines
CloseLastLine ==
    /\ pc = "group" /\ item_i > Len(text_items)
    /\ lines' = CloseLine([lines |-> lines, current_line |-> current_line])
    /\ item_i' = 1
    /\ result_lines' = <<>>
    /\ pc' = "join"
    /\ UNCHANGED <<text_items, y_threshold, current_line>>
    /\ UNCHANGED <<pipeVars, scaleVars, ctlVars>>

\* one iteration of: for line in lines (line.sort sorts the list in place)
JoinNextLine ==
    /\ pc = "join" /\ item_i <= Len(lines)
    /\ lines' = [lines EXCEPT ![item_i] = SortByLeftX(@)]
    /\ result_lines' = Append(result_lines, JoinLine(lines[item_i]))
    /\ item_i' = item_i + 1
    /\ UNCHANGED <<pc, text_items, y_threshold, current_line>>
    /\ UNCHANGED <<pipeVars, scaleVars, ctlVars>>

\* return "\n".join(result_lines)
ReturnJoined ==
    /\ pc = "join" /\ item_i > Len(lines)
    /\ ret' = Return(StrJoin(<<"\n">>, result_lines))
    /\ pc' = "done"
    /\ UNCHANGED <<image_path, line_thickness, image, results, image_rgba, texture>>
    /\ UNCHANGED <<groupVars, scaleVars, ctlVars>>

NextReconstruct ==
    \/ ReturnEmpty
    \/ ExtractTextPositions
    \/ ComputeThreshold
    \/ SortItems
    \/ GroupNextItem
    \/ CloseLastLine
    \/ JoinNextLine
    \/ ReturnJoined

SpecReconstruct == InitReconstruct /\ [][NextReconstruct]_vars

(***************************************************************************)
(* SpecPipeline: one call of Model.get_texture_data, statement by          *)
(* statement, for every file of the disk and every line_thickness from     *)
(* -MaxThickness to MaxThickness.                                          *)
(***************************************************************************)
MaxThickness == 2

Thicknesses == (-MaxThickness)..MaxThickness

InitPipeline ==
    /\ pc = "imread"
    /\ image_path \in Paths
    /\ line_thickness \in Thicknesses
    /\ image = None /\ results = <<>> /\ image_rgba = None /\ texture = None
    /\ ret = None
    /\ IdleGroup /\ IdleScale /\ IdleCtl

Imread ==
    /\ pc = "imread"
    /\ image' = imread(image_path)
    /\ IF image' = None
       THEN ret' = Raise("FileNotFoundError") /\ pc' = "done"
       ELSE ret' = ret /\ pc' = "readtext"
    /\ UNCHANGED <<image_path, line_thickness, results, image_rgba, texture>>
    /\ UNCHANGED <<groupVars, scaleVars, ctlVars>>

Readtext ==
    /\ pc = "readtext"
    /\ results' = readtext(image_path)
    /\ pc' = "draw"
    /\ UNCHANGED <<image_path, line_thickness, image, image_rgba, texture, ret>>
    /\ UNCHANGED <<groupVars, scaleVars, ctlVars>>

DrawPolylines ==
    /\ pc = "draw"
    /\ LET drawn == _draw_polylines(image, results, line_color, line_thickness)
       IN IF drawn.kind = "raise"
          THEN ret' = drawn /\ image' = image /\ pc' = "done"
          ELSE ret' = ret /\ image' = drawn.value /\ pc' = "convert"
    /\ UNCHANGED <<image_path, line_thickness, results, image_rgba, texture>>
    /\ UNCHANGED <<groupVars, scaleVars, ctlVars>>

ConvertToTexture ==
    /\ pc = "convert"
    /\ image_rgba' = cvtColor(image)
    /\ texture' = _convert_to_texture(image)
    /\ pc' = "group"
    /\ UNCHANGED <<image_path, line_thickness, image, results, ret>>
    /\ UNCHANGED <<groupVars, scaleVars, ctlVars>>

\* combined_text = self._group_text_by_lines(results, line_threshold), and the
\* return.  The locals of the grouping are kept when it runs past its first test.
GroupTextByLines ==
    /\ pc = "group"
    /\ ret' = TextureResult(texture, _group_text_by_lines(results, line_threshold))
    /\ IF results = <<>>
       THEN UNCHANGED groupVars
       ELSE /\ text_items' = SortByCenterY(_extract_text_positions(results))
            /\ y_threshold' = YThreshold(text_items', line_threshold)
            /\ lines' = _group_items_into_lines(text_items', y_threshold')
            /\ UNCHANGED <<current_line, item_i, result_lines>>
    /\ pc' = "done"
    /\ UNCHANGED <<image_path, line_thickness, image, results, image_rgba, texture>>
    /\ UNCHANGED <<scaleVars, ctlVars>>

NextPipeline ==
    \/ Imread
    \/ Readtext
    \/ DrawPolylines
    \/ ConvertToTexture
    \/ GroupTextByLines

SpecPipeline == InitPipeline /\ [][NextPipeline]_vars

(***************************************************************************)
(* Properties.  The geometry is restated here from the detections alone:   *)
(* four times the centre, the height and the left edge of the k-th         *)
(* detection of results, and the threshold test                            *)
(*   |cy(a) - cy(b)| <= (sum of heights / n) * 1/2                         *)
(* cleared of its denominators.                                            *)
(***************************************************************************)
PointYs(k) == {results[k].bbox[j][2] : j \in 1..4}
PointXs(k) == {results[k].bbox[j][1] : j \in 1..4}
Largest(S) == CHOOSE m \in S : \A v \in S : v <= m
Smallest(S) == CHOOSE m \in S : \A v \in S : m <= v

CenterTimes4(k) ==
    results[k].bbox[1][2] + results[k].bbox[2][2] + results[k].bbox[3][2]
        + results[k].bbox[4][2]
BoxHeight(k) == Largest(PointYs(k)) - Smallest(PointYs(k))
LeftEdge(k) == Smallest(PointXs(k))
TotalHeight == SumSeq([k \in 1..Len(results) |-> BoxHeight(k)])

CenterGap(a, b) == Len(results) * Abs(CenterTimes4(a) - CenterTimes4(b))
WithinThreshold(a, b) == CenterGap(a, b) <= 2 * TotalHeight

OpenLines == Append(lines, current_line)

C1_MembersNearAnchor ==
    pc = "group" =>
        /\ \A k \in 1..Len(OpenLines) : \A j \in 1..Len(OpenLines[k]) :
               WithinThreshold(OpenLines[k][j].det, OpenLines[k][1].det)
        /\ \A a \in 1..Len(text_items), b \in 1..Len(text_items) :
               a < b => CenterTimes4(text_items[a].det) <= CenterTimes4(text_items[b].det)

C1_AnchorDecides ==
    (pc = "group" /\ item_i <= Len(text_items)) =>
        IF WithinThreshold(text_items[item_i].det, current_line[1].det)
        THEN /\ current_line' = Append(current_line, text_items[item_i])
             /\ lines' = lines
        ELSE /\ lines' = Append(lines, current_line)
             /\ current_line' = <<text_items[item_i]>>

\* C1: in the loop of _group_items_into_lines the items are visited in ascending
\* center_y order and every item joins the open line if and only if its centre is
\* within y_threshold (mean height of all items times 0.5, equality included) of the
\* centre of that line's FIRST member; otherwise the line is closed and the item
\* opens the next one.  So in every line, closed or open, every member is within
\* y_threshold of the first member.
C1_FixedAnchorClustering == [](C1_MembersNearAnchor) /\ [][C1_AnchorDecides]_vars

\* A line was closed although the item that opened the next line is within the
\* threshold of the closed line's last member (drift), and a member of a line sits
\* at exactly the threshold from its anchor.
C1_Witness ==
    /\ pc = "group" /\ item_i > Len(text_items) /\ Len(lines) >= 1
    /\ Len(lines[1]) >= 2
    /\ WithinThreshold(current_line[1].det, lines[1][Len(lines[1])].det)
    /\ ~WithinThreshold(current_line[1].det, lines[1][1].det)
    /\ TotalHeight > 0
    /\ CenterGap(lines[1][2].det, lines[1][1].det) = 2 * TotalHeight

RECURSIVE SplitOn(_, _)
SplitOn(str, sep) ==
    IF \A k \in 1..Len(str) : str[k] # sep THEN <<str>>
    ELSE LET k == CHOOSE i \in 1..Len(str) :
                      str[i] = sep /\ \A j \in 1..(i - 1) : str[j] # sep
         IN <<SubSeq(str, 1, k - 1)>> \o SplitOn(SubSeq(str, k + 1, Len(str)), sep)

\* the place of the item built from detection d in the list sorted by center_y
PlaceByCenterY(d) == CHOOSE i \in 1..Len(text_items) : text_items[i].det = d

InReadingOrder(line) ==
    \A a \in 1..Len(line), b \in 1..Len(line) :
        a < b =>
            \/ LeftEdge(line[a].det) < LeftEdge(line[b].det)
            \/ /\ LeftEdge(line[a].det) = LeftEdge(line[b].det)
               /\ PlaceByCenterY(line[a].det) < PlaceByCenterY(line[b].det)

\* C2: for a nonempty detection list the returned string has one newline-separated
\* group per line of the clustering, in the order the lines were closed (every
\* member of an earlier line lies above every member of a later one), and each
\* group is the texts of its line joined by single spaces in non-decreasing left_x
\* order, equal left_x keeping the order of the center_y sort.  "World" at left_x 10
\* and "Hello" at left_x 0 on the same centre give "Hello World".
C2_OutputIsLinesInReadingOrder ==
    (pc = "done" /\ results # <<>>) =>
        /\ ret.kind = "return"
        /\ Len(SplitOn(ret.value, "\n")) = Len(lines)
        /\ \A k \in 1..Len(lines) :
               /\ SplitOn(SplitOn(ret.value, "\n")[k], " ")
                      = [j \in 1..Len(lines[k]) |-> results[lines[k][j].det].text]
               /\ InReadingOrder(lines[k])
        /\ \A k \in 1..Len(lines), m \in 1..Len(lines) :
               k < m => \A a \in 1..Len(lines[k]), b \in 1..Len(lines[m]) :
                            CenterTimes4(lines[k][a].det) < CenterTimes4(lines[m][b].det)
        /\ results = <<D_World, D_Hello>> => ret.value = Hello \o <<" ">> \o World

\* Two lines came out; one of them holds two items that the left_x sort exchanged
\* and two items of equal left_x.
C2_Witness ==
    /\ pc = "done" /\ Len(lines) = 2
    /\ \E a \in 1..Len(lines[1]), b \in 1..Len(lines[1]) :
           a < b /\ lines[1][a].det > lines[1][b].det
    /\ \E a \in 1..Len(lines[1]), b \in 1..Len(lines[1]) :
           a < b /\ LeftEdge(lines[1][a].det) = LeftEdge(lines[1][b].det)

Occurrences(d) ==
    Cardinality({<<k, j>> \in (1..Len(lines)) \X (1..MaxDetections + 1) :
                     j <= Len(lines[k]) /\ lines[k][j].det = d})

\* C3: _extract_text_positions gives one item per detection, in order, with the
\* text copied, center_y the mean of the four y, left_x the least x and height the
\* greatest y minus the least y (0 for a polygon whose points coincide); and the
\* lines handed to _join_lines, and left by it, hold every item exactly once.
C3_NoDetectionLostOrDuplicated ==
    /\ pc = "threshold" =>
           /\ Len(text_items) = Len(results)
           /\ \A k \in 1..Len(results) :
                  /\ text_items[k].det = k
                  /\ text_items[k].text = results[k].text
                  /\ text_items[k].center_y[1] * 4 = CenterTimes4(k) * text_items[k].center_y[2]
                  /\ text_items[k].left_x = LeftEdge(k)
                  /\ text_items[k].height = BoxHeight(k)
                  /\ text_items[k].height >= 0
    /\ (pc \in {"join", "done"} /\ results # <<>>) =>
           /\ SumSeq([k \in 1..Len(lines) |-> Len(lines[k])]) = Len(results)
           /\ \A d \in 1..Len(results) : Occurrences(d) = 1

\* Three detections, one of them a polygon whose four points coincide, were
\* clustered into at least two lines.
C3_Witness ==
    /\ pc = "join" /\ Len(results) = 3 /\ Len(lines) >= 2
    /\ \E k \in 1..Len(results) : results[k] = D_d
    /\ \E k \in 1..Len(lines) : \E j \in 1..Len(lines[k]) :
           text_items[PlaceByCenterY(lines[k][j].det)].height = 0

\* C4: _calculate_height with current_width = 0 raises (Python's ZeroDivisionError,
\* from the division that computes the aspect ratio) for every new_width and
\* current_height, and so yields no height.
C4_ZeroWidthRaises ==
    (pc = "done" /\ current_width = 0) => new_height = Raise("ZeroDivisionError")

C4_Witness ==
    /\ pc = "done" /\ current_width = 0 /\ new_width = 600 /\ current_height = 600
    /\ new_height.kind = "raise"

\* C5: for source_width > 0 the result is the exact quotient
\* target_width * source_height / source_width truncated to an integer.
C5_ScaledHeightIsExactFloor ==
    (pc = "done" /\ current_width > 0) =>
        new_height = Return((new_width * current_height) \div current_width)

TextureValues == texture.texture_data
PixelCount == image.width * image.height

EncodedShape ==
    /\ ret = Return(texture)
    /\ texture.width = image.width /\ texture.height = image.height
    /\ Len(TextureValues) = image.width * image.height * 4
    /\ \A k \in 1..Len(TextureValues) :
           /\ TextureValues[k][2] = 255
           /\ 0 <= TextureValues[k][1] /\ TextureValues[k][1] <= TextureValues[k][2]

Alpha(p) == IF image.channels = 3 THEN 255 ELSE image.data[p][4]

\* C6 as stated: the texture has w*h*4 values in [0,1], and pixel by pixel, in
\* row-major order, it is the buffer's own bytes over 255 in the buffer's own channel
\* order, with an alpha of 1.0 appended to a 3-channel pixel and a 4-channel pixel
\* passed through.
C6_ChannelsPassThrough ==
    pc = "done" =>
        /\ EncodedShape
        /\ \A p \in 1..PixelCount :
               /\ \A c \in 1..3 : TextureValues[4 * (p - 1) + c] = <<image.data[p][c], 255>>
               /\ TextureValues[4 * p] = <<Alpha(p), 255>>

\* C6, amended: the texture has w*h*4 values in [0,1], and pixel by pixel, in
\* row-major order, it is the buffer's bytes over 255 with the first and the third
\* channel exchanged (B,G,R becomes R,G,B), followed by 1.0 for a 3-channel pixel
\* and by the pixel's own fourth byte over 255 for a 4-channel pixel.
C6_EncodeSwapsBlueAndRed ==
    pc = "done" =>
        /\ EncodedShape
        /\ \A p \in 1..PixelCount :
               /\ TextureValues[4 * (p - 1) + 1] = <<image.data[p][3], 255>>
               /\ TextureValues[4 * (p - 1) + 2] = <<image.data[p][2], 255>>
               /\ TextureValues[4 * (p - 1) + 3] = <<image.data[p][1], 255>>
               /\ TextureValues[4 * p] = <<Alpha(p), 255>>
        /\ (image.channels = 3 /\ \A p \in 1..PixelCount : image.data[p] = White)
               => \A k \in 1..Len(TextureValues) : TextureValues[k] = <<255, 255>>

\* A 2x2 3-channel buffer with a pixel whose first and third bytes differ was
\* encoded into 16 values.
C6_Witness ==
    /\ pc = "done" /\ image.channels = 3 /\ image.width = 2 /\ image.height = 2
    /\ image.data[1] = Grey /\ image.data[4] = White
    /\ Len(texture.texture_data) = 16

AnnotateReturned == pc \in {"convert", "group"} \/ (pc = "done" /\ ret.kind = "return")

\* C7: a call of get_texture_data whose line_thickness is <= 0 raises, whatever the
\* detections are: _draw_polylines never returns an image and no texture is built.
C7_NonPositiveThicknessRaises ==
    (line_thickness <= 0 /\ pc \notin {"imread", "readtext", "draw"}) =>
        /\ ~AnnotateReturned
        /\ ret.kind = "raise"

\* C8: for a readable image in which the reader detects nothing, _draw_polylines
\* leaves the image as it was read, _group_text_by_lines returns "" without
\* extracting positions or computing a threshold, and get_texture_data returns
\* normally with detected_text = "" and the texture of the image as it was read.
C8_EmptyDetectionsAreValid ==
    (pc \in {"convert", "group", "done"} /\ imread(image_path) # None
         /\ readtext(image_path) = <<>>) =>
        /\ image = imread(image_path)
        /\ text_items = <<>> /\ y_threshold = <<>> /\ lines = <<>>
        /\ pc = "done" =>
               /\ ret.kind = "return"
               /\ ret.detected_text = <<>>
               /\ ret.width = image.width /\ ret.height = image.height
               /\ ret.texture_data = TextureOf(cvtColor(imread(image_path))).texture_data

C8_Witness ==
    /\ pc = "done" /\ image_path = "blank.png" /\ line_thickness = 2
    /\ results = <<>> /\ ret.kind = "return" /\ ret.detected_text = <<>>

(***************************************************************************)
(* Spec: the application.  DearPyGui runs the callbacks of the two buttons *)
(* one at a time, in the order of the clicks, on its callback thread; a    *)
(* click made while a callback runs waits in the queue.  issued numbers    *)
(* the clicks (the generation of a request) and finished remembers the     *)
(* callback that ended last, with the number of clicks made by then; the   *)
(* code keeps neither.  process_image_callback is two steps, the call of   *)
(* get_texture_data (the OCR, seconds long) and what follows its return.   *)
(* dpg.delete_item on an item that does not exist yet is taken to leave    *)
(* the items as they are.                                                  *)
(***************************************************************************)
MaxRequests == 3

display_width == 600
default_line_thickness == 2

\* dpg.load_image: width, height, channels and the RGBA floats of the file
load_image(path) ==
    [width |-> Decoded(path).width, height |-> Decoded(path).height, channels |-> 4,
     data |-> TextureOf(cvtColor(Decoded(path))).texture_data]

StaticTexture(w, h, data) == [width |-> w, height |-> h, default_value |-> data]

ImageItem(h) ==
    [texture_tag |-> "CURRENT_IMAGE_TEXTURE", width |-> display_width, height |-> h]

Request(callback, gen) == [callback |-> callback, gen |-> gen]

Finished(gen, callback, outcome) ==
    [gen |-> gen, callback |-> callback, outcome |-> outcome, latest |-> issued]

Init ==
    /\ pc = "running"
    /\ IdleCtl /\ IdleScale /\ IdlePipe /\ IdleGroup

\* the user clicks a button: DearPyGui queues its callback
Click(callback) ==
    /\ issued < MaxRequests
    /\ issued' = issued + 1
    /\ callback_queue' = Append(callback_queue, Request(callback, issued + 1))
    /\ UNCHANGED <<_image_path, current_texture, current_image, result_text, running,
                   escaped, dialogs, finished, displayed_path>>
    /\ UNCHANGED <<pc, scaleVars, pipeVars, groupVars>>

ClickLoad == Click("load")

ClickProcess == Click("process")

\* the texture and the image item added for a decoded width, height and data; when
\* _calculate_height raises, the texture is in place and the image item is not
ShowImage(gen, path, w, h, data) ==
    LET scaled == _calculate_height(display_width, w, h)
    IN /\ current_texture' = StaticTexture(w, h, data)
       /\ IF scaled.kind = "raise"
          THEN /\ current_image' = None
               /\ displayed_path' = ""
               /\ escaped' = Append(escaped, [gen |-> gen, exc |-> scaled.exc])
          ELSE /\ current_image' = ImageItem(scaled.value)
               /\ displayed_path' = path
               /\ escaped' = escaped

\* Controller.load_image_callback; choice is what xdialog.open_file returns, "" when
\* the dialog is cancelled
load_image_callback(choice) ==
    /\ running = None /\ callback_queue # <<>>
    /\ Head(callback_queue).callback = "load"
    /\ callback_queue' = Tail(callback_queue)
    /\ _image_path' = choice
    /\ IF choice # ""
       THEN /\ ShowImage(Head(callback_queue).gen, choice, load_image(choice).width,
                         load_image(choice).height, load_image(choice).data)
            /\ finished' = Finished(Head(callback_queue).gen, "load", "loaded")
       ELSE /\ UNCHANGED <<current_texture, current_image, escaped, displayed_path>>
            /\ finished' = Finished(Head(callback_queue).gen, "load", "cancelled")
    /\ UNCHANGED <<result_text, running, issued, dialogs>>
    /\ UNCHANGED <<pc, scaleVars, pipeVars, groupVars>>

LoadImage == \E choice \in Paths \cup {""} : load_image_callback(choice)

\* Controller.process_image_callback with no path: the else branch
ProcessNoImage ==
    /\ running = None /\ callback_queue # <<>>
    /\ Head(callback_queue).callback = "process"
    /\ _image_path = ""
    /\ callback_queue' = Tail(callback_queue)
    /\ dialogs' = Append(dialogs, "No Image Selected!")
    /\ finished' = Finished(Head(callback_queue).gen, "process", "no image")
    /\ UNCHANGED <<_image_path, current_texture, current_image, result_text, running,
                   issued, escaped, displayed_path>>
    /\ UNCHANGED <<pc, scaleVars, pipeVars, groupVars>>

\* Controller.process_image_callback with a path: get_texture_data is called
ProcessStart ==
    /\ running = None /\ callback_queue # <<>>
    /\ Head(callback_queue).callback = "process"
    /\ _image_path # ""
    /\ callback_queue' = Tail(callback_queue)
    /\ running' = [callback |-> "process", gen |-> Head(callback_queue).gen,
                   path |-> _image_path]
    /\ UNCHANGED <<_image_path, current_texture, current_image, result_text, issued,
                   escaped, dialogs, finished, displayed_path>>
    /\ UNCHANGED <<pc, scaleVars, pipeVars, groupVars>>

\* get_texture_data returns or raises; nothing in the callback catches
ProcessFinish ==
    /\ running # None
    /\ running' = None
    /\ LET result == get_texture_data(running.path, line_color, default_line_thickness,
                                      line_threshold)
       IN IF result.kind = "raise"
          THEN /\ escaped' = Append(escaped, [gen |-> running.gen, exc |-> result.exc])
               /\ finished' = Finished(running.gen, "process", "raised")
               /\ UNCHANGED <<current_texture, current_image, result_text, displayed_path>>
          ELSE /\ ShowImage(running.gen, running.path, result.width, result.height,
                            result.texture_data)
               /\ result_text' = result.detected_text
               /\ finished' = Finished(running.gen, "process", "applied")
    /\ UNCHANGED <<_image_path, callback_queue, issued, dialogs>>
    /\ UNCHANGED <<pc, scaleVars, pipeVars, groupVars>>

Next ==
    \/ ClickLoad
    \/ ClickProcess
    \/ LoadImage
    \/ ProcessNoImage
    \/ ProcessStart
    \/ ProcessFinish

Spec == Init /\ [][Next]_vars

\* C9: a result of get_texture_data is put on display only when its request is
\* still the one issued last: the callback that applied a result last carried the
\* number of the latest click made by then.
C9_OnlyLatestGenerationApplied ==
    finished.outcome = "applied" => finished.gen = finished.latest

\* C10: when get_texture_data fails inside process_image_callback, nothing escapes
\* the callback, the user is shown a message, the result text reads as no text
\* detected and the image on display is the one that was loaded, unannotated.
C10_PipelineFailureIsHandled ==
    finished.outcome = "raised" =>
        /\ escaped = <<>>
        /\ dialogs # <<>>
        /\ result_text = <<>>
        /\ current_texture # None
        /\ current_texture.default_value = load_image(_image_path).data

\* C11: whenever an image item is on display, _image_path is not empty and is the
\* file that image was made from; and process_image_callback answers
\* "No Image Selected!" only while no image is on display.
C11_StoredPathNamesDisplayedImage ==
    /\ current_image # None => _image_path # "" /\ _image_path = displayed_path
    /\ finished.outcome = "no image" => current_image = None

====
